---------------------------- MODULE Spec2Model ----------------------------
(***************************************************************************)
(* Gesture classification and transform engine of SwiperViewComponent      *)
(* (src/example/index.tsx, lines 122-635).                                 *)
(*                                                                         *)
(* Numbers are JavaScript numbers.  A number is a pair <<n, d>>: the       *)
(* reduced fraction n/d when d > 0, +Infinity = <<1,0>>, -Infinity =       *)
(* <<-1,0>> and NaN = <<0,0>>.  The touch coordinates, pinch distances and *)
(* the viewport are chosen so that every finite value the handlers compute *)
(* is a small dyadic fraction, which binary64 holds exactly, so the        *)
(* fractions are the values the program computes.                          *)
(*                                                                         *)
(* React Native's Animated is the environment.  start(cb) puts one         *)
(* animation in flight; it ends either by itself later (AnimationEnd) or   *)
(* when stopAnimation() is called on its values, and in both cases its     *)
(* end callback runs exactly once, for a stop synchronously inside         *)
(* stopAnimation().  While an animation is in flight the animated values   *)
(* are on their way to its toScale / toValue and arrive there when it ends *)
(* by itself; scaleAnimated and transformAnimated hold the values they     *)
(* have whenever no animation is in flight.                                *)
(***************************************************************************)
EXTENDS Integers, Sequences, FiniteSets, TLC

VARIABLES
    childState,           \* this.childState
    childDoingZoom,       \* this.childDoingZoom
    doingChildAnimation,  \* this.doingChildAnimation
    scaleTarget,          \* this.scaleTarget
    transformBase,        \* this.transformBase
    animations,           \* animations started by doChildAnimation, not ended
    absolutePosition,     \* this.absolutePosition
    scaleAnimated,        \* this.scaleAnimated, at rest
    transformAnimated,    \* this.transformAnimated, at rest
    now,                  \* timeStamp of the latest delivered event
    lastTap               \* history: timeStamp of the latest event handed to
                          \* onStartTouchResponder, 0 before the first

vars == <<childState, childDoingZoom, doingChildAnimation, scaleTarget,
          transformBase, animations, absolutePosition, scaleAnimated,
          transformAnimated, now, lastTap>>

---------------------------------------------------------------------------
(* Bounds of the model *)

(* Event time stamps start at StartTime and two consecutive events are    *)
(* 100 ms or 300 ms apart; the model follows the component for MaxTicks   *)
(* units of 100 ms.                                                       *)
StartTime == 1000

MaxTicks == 4

MaxTime == StartTime + MaxTicks * 100

---------------------------------------------------------------------------
(* JavaScript number arithmetic *)

IAbs(i) == IF i < 0 THEN -i ELSE i

ISign(i) == IF i > 0 THEN 1 ELSE IF i < 0 THEN -1 ELSE 0

RECURSIVE GCD(_, _)
GCD(a, b) == IF b = 0 THEN a ELSE GCD(b, a % b)

Norm(n, d) ==
    IF d = 0 THEN <<ISign(n), 0>>
    ELSE LET g == GCD(IAbs(n), IAbs(d))
         IN  <<(ISign(d) * n) \div g, IAbs(d) \div g>>

Num(i) == <<i, 1>>

NaN == <<0, 0>>

Infinity == <<1, 0>>

IsNaN(a) == a = NaN

IsFinite(a) == a[2] # 0

fNeg(a) == <<-a[1], a[2]>>

fAdd(a, b) ==
    IF IsNaN(a) \/ IsNaN(b) THEN NaN
    ELSE IF a[2] = 0 /\ b[2] = 0 THEN (IF a = b THEN a ELSE NaN)
    ELSE Norm(a[1] * b[2] + b[1] * a[2], a[2] * b[2])

fSub(a, b) == fAdd(a, fNeg(b))

fMul(a, b) == Norm(a[1] * b[1], a[2] * b[2])

fDiv(a, b) ==
    IF a[2] = 0 /\ b[2] # 0
    THEN <<(IF b[1] < 0 THEN -a[1] ELSE a[1]), 0>>
    ELSE Norm(a[1] * b[2], a[2] * b[1])

fLt(a, b) ==
    /\ ~IsNaN(a)
    /\ ~IsNaN(b)
    /\ IF a[2] = 0 /\ b[2] = 0 THEN a[1] < b[1]
       ELSE a[1] * b[2] < b[1] * a[2]

fLe(a, b) == ~IsNaN(a) /\ ~IsNaN(b) /\ ~fLt(b, a)

fEq(a, b) == ~IsNaN(a) /\ ~IsNaN(b) /\ a = b

MathMin(a, b) ==
    IF IsNaN(a) \/ IsNaN(b) THEN NaN ELSE IF fLt(b, a) THEN b ELSE a

MathMax(a, b) ==
    IF IsNaN(a) \/ IsNaN(b) THEN NaN ELSE IF fLt(a, b) THEN b ELSE a

MathAbs(a) == <<IAbs(a[1]), a[2]>>

IsSquare(i) == \E r \in 0..i : r * r = i

RECURSIVE FloorSqrt(_, _, _)
FloorSqrt(lo, hi, i) ==
    IF lo = hi THEN lo
    ELSE LET mid == (lo + hi + 1) \div 2
         IN  IF mid * mid <= i THEN FloorSqrt(mid, hi, i)
             ELSE FloorSqrt(lo, mid - 1, i)

ISqrt(i) == CHOOSE r \in {FloorSqrt(0, i, i)} : r * r = i

MathSqrt(a) ==
    IF IsNaN(a) \/ a[1] < 0 THEN NaN
    ELSE IF a[2] = 0 THEN a
    ELSE <<ISqrt(a[1]), ISqrt(a[2])>>

---------------------------------------------------------------------------
(* Program constants *)

DOUBLE_TOUCH_THRES == 300

MAX_ZOOM == Num(5)

DEFAULT_ZOOM == Num(2)

MIN_ZOOM == Norm(1, 2)

MAX_ZOOM_RESET == Norm(13, 10)

MIN_ZOOM_RESET == Num(0)

SOFT_ANIMIATION_TIME == 300

ChildStatusSINGLE == "Child::SINGLE"

ChildStatusDOUBLE == "Child::DOUBLE"

ChildStatusOTHER == "Child::OTHER"

Undefined == [undefined |-> TRUE]

Pos(x, y) == [x |-> x, y |-> y]

positionMult(input, value) ==
    [x |-> fMul(input.x, value), y |-> fMul(input.y, value)]

viewPort == [width |-> Num(300), height |-> Num(300)]

centerPosition ==
    [x |-> fDiv(viewPort.width, Num(2)), y |-> fDiv(viewPort.height, Num(2))]

getCenterDisposition_FromOrigin(pos) == pos

getCenterDisposition(pos) ==
    [x |-> fSub(pos.x, centerPosition.x), y |-> fSub(pos.y, centerPosition.y)]

---------------------------------------------------------------------------
(* The component's mutable fields as one record, threaded through the     *)
(* methods in the order the code executes them.                           *)

This ==
    [childState          |-> childState,
     childDoingZoom      |-> childDoingZoom,
     doingChildAnimation |-> doingChildAnimation,
     scaleTarget         |-> scaleTarget,
     transformBase       |-> transformBase,
     animations          |-> animations,
     scaleAnimated       |-> scaleAnimated,
     transformAnimated   |-> transformAnimated]

(* The callback handed to Animated.parallel(...).start: the caller's      *)
(* callback ("reset" is doChildReset's closure, "noop" the default), then *)
(* doingChildAnimation = false.                                           *)
endCallback_AlwaysClearsZoom(s, a) ==
    [s EXCEPT !.childDoingZoom = FALSE, !.doingChildAnimation = FALSE]

endCallback_SkipsCallback(s, a) ==
    [s EXCEPT !.doingChildAnimation = FALSE]

endCallback(s, a) ==
    LET s1 == IF a.callback = "reset"
              THEN [s EXCEPT !.childDoingZoom = FALSE]
              ELSE s
    IN  [s1 EXCEPT !.doingChildAnimation = FALSE]

(* scaleAnimated.stopAnimation(); transformAnimated.stopAnimation():      *)
(* every animation in flight ends unfinished and its end callback runs    *)
(* before stopAnimation returns.                                          *)
stopAnimation_LeavesPending(s) == s

RECURSIVE stopAnimation(_)
stopAnimation(s) ==
    IF s.animations = <<>> THEN s
    ELSE stopAnimation(
             endCallback([s EXCEPT !.animations = Tail(@)], Head(s.animations)))

(* doChildAnimation past its early return: stop on override, set the     *)
(* flags, clamp the target and start the animation towards it.            *)
clampAndStart(s, timing, callback, override) ==
      LET s1 == IF override THEN stopAnimation(s) ELSE s
          s2 == [s1 EXCEPT !.doingChildAnimation = TRUE,
                           !.childDoingZoom = TRUE]
          boundScaleTarget ==
              MathMax(MathMin(s2.scaleTarget, MAX_ZOOM), MIN_ZOOM)
          disposition == positionMult(s2.transformBase, Num(1))
          maxX == fDiv(fMul(viewPort.width,
                            MathAbs(fSub(Num(1), boundScaleTarget))), Num(2))
          maxY == fDiv(fMul(viewPort.height,
                            MathAbs(fSub(Num(1), boundScaleTarget))), Num(2))
          boundDisposition ==
              [x |-> MathMax(MathMin(disposition.x, maxX), fNeg(maxX)),
               y |-> MathMax(MathMin(disposition.y, maxY), fNeg(maxY))]
      IN  [s2 EXCEPT
             !.scaleTarget = boundScaleTarget,
             !.transformBase = boundDisposition,
             !.animations = Append(@,
                 [callback |-> callback,
                  duration |-> timing,
                  toScale  |-> boundScaleTarget,
                  toValue  |-> boundDisposition,
                  replaced |-> override /\ s.animations # <<>>])]

doChildAnimation_AlwaysStarts(s, timing, callback, override) ==
    clampAndStart(s, timing, callback, override)

doChildAnimation(s, timing, callback, override) ==
    IF s.doingChildAnimation = TRUE /\ ~override THEN s
    ELSE clampAndStart(s, timing, callback, override)

doChildReset_WithoutCallback(s, timing) ==
    doChildAnimation(
        [s EXCEPT !.scaleTarget = Num(1),
                  !.transformBase = Pos(Num(0), Num(0))],
        timing, "noop", TRUE)

doChildReset(s, timing) ==
    doChildAnimation(
        [s EXCEPT !.scaleTarget = Num(1),
                  !.transformBase = Pos(Num(0), Num(0))],
        timing, "reset", TRUE)

doChangeScale(s, updateDisposition, updateScale, updateCenter) ==
    LET newScale == fMul(s.scaleTarget, updateScale)
        origDisposition == s.transformBase
        centerToCenterDisposition ==
            IF updateCenter # Undefined
            THEN [x |-> fSub(updateCenter.x, origDisposition.x),
                  y |-> fSub(updateCenter.y, origDisposition.y)]
            ELSE Pos(Num(0), Num(0))
        newDisposition == positionMult(updateDisposition, Num(1))
        newCenterDisposition ==
            positionMult(centerToCenterDisposition, fSub(Num(1), updateScale))
        disposition ==
            [x |-> fAdd(fAdd(origDisposition.x, newDisposition.x),
                        newCenterDisposition.x),
             y |-> fAdd(fAdd(origDisposition.y, newDisposition.y),
                        newCenterDisposition.y)]
    IN  [s EXCEPT !.transformBase = disposition, !.scaleTarget = newScale]

doChildDoubleTouch(s, secondTouch, timediff) ==
    IF ~s.childDoingZoom
    THEN LET scale == DEFAULT_ZOOM
             center == getCenterDisposition(secondTouch)
         IN  doChildAnimation(
                 doChangeScale(s, Pos(Num(0), Num(0)), scale, center),
                 SOFT_ANIMIATION_TIME, "noop", TRUE)
    ELSE doChildReset(s, SOFT_ANIMIATION_TIME)

doChildPinchMove(s, prev, next, timeDiff) ==
    LET newDisposition ==
            [x |-> fSub(next.center.x, prev.center.x),
             y |-> fSub(next.center.y, prev.center.y)]
        updateScale == fDiv(next.distance, prev.distance)
    IN  doChildAnimation(
            doChangeScale(s, newDisposition, updateScale,
                          getCenterDisposition(prev.center)),
            timeDiff, "noop", FALSE)

doChildMove_Unguarded(s, prev, next, timeDiff) ==
    LET newDisposition ==
            [x |-> fSub(next.x, prev.x), y |-> fSub(next.y, prev.y)]
    IN  doChildAnimation(
            doChangeScale(s, newDisposition, Num(1), Undefined),
            timeDiff, "noop", FALSE)

doChildMove(s, prev, next, timeDiff) ==
    IF s.childDoingZoom /\ ~fEq(s.scaleTarget, Num(1))
    THEN LET newDisposition ==
                 [x |-> fSub(next.x, prev.x), y |-> fSub(next.y, prev.y)]
             updateScale == Num(1)
         IN  doChildAnimation(
                 doChangeScale(s, newDisposition, updateScale, Undefined),
                 timeDiff, "noop", FALSE)
    ELSE s

(* this.childState.lastTouch = 0 writes into the object that the          *)
(* assignment this.childState = to then replaces; every caller builds to  *)
(* by spreading this.childState before the call.                          *)
doChildStateChange(s, to) ==
    LET changed == s.childState.status # to.status
        s1 == IF changed /\ to.status # ChildStatusSINGLE
              THEN [s EXCEPT !.childState.lastTouch = 0]
              ELSE s
        s2 == IF changed /\ to.status = ChildStatusDOUBLE
              THEN [s1 EXCEPT !.childDoingZoom = TRUE]
              ELSE s1
    IN  [s2 EXCEPT !.childState = to]

---------------------------------------------------------------------------
(* Touch handlers.  An event is [touches, timeStamp]; nativeEvent.pageX   *)
(* and pageY of a one-touch event are those of its only touch.            *)

pageX(event) == event.touches[1].pageX

pageY(event) == event.touches[1].pageY

onStartTouchResponder_KeepsLastTouch(s, event) ==
    LET timediff == event.timeStamp - s.childState.lastTouch
        newPos == [x |-> fSub(pageX(event), absolutePosition.x),
                   y |-> fSub(pageY(event), absolutePosition.y)]
    IN  IF timediff < DOUBLE_TOUCH_THRES
        THEN IF s.childState.status # ChildStatusSINGLE
             THEN doChildDoubleTouch(s, newPos, timediff)
             ELSE s
        ELSE LET s1 == [s EXCEPT !.childState.lastTouch = event.timeStamp]
             IN  doChildStateChange(s1,
                     [s1.childState EXCEPT
                        !.initial = newPos,
                        !.last = newPos,
                        !.timestamp = event.timeStamp,
                        !.status = ChildStatusSINGLE])

onStartTouchResponder(s, event) ==
    LET timediff == event.timeStamp - s.childState.lastTouch
        newPos == [x |-> fSub(pageX(event), absolutePosition.x),
                   y |-> fSub(pageY(event), absolutePosition.y)]
    IN  IF timediff < DOUBLE_TOUCH_THRES
        THEN LET s1 == [s EXCEPT !.childState.lastTouch = 0]
             IN  IF s1.childState.status # ChildStatusSINGLE
                 THEN doChildDoubleTouch(s1, newPos, timediff)
                 ELSE s1
        ELSE LET s1 == [s EXCEPT !.childState.lastTouch = event.timeStamp]
             IN  doChildStateChange(s1,
                     [s1.childState EXCEPT
                        !.initial = newPos,
                        !.last = newPos,
                        !.timestamp = event.timeStamp,
                        !.status = ChildStatusSINGLE])

newPinchOf(event) ==
    LET touchA == [x |-> fSub(event.touches[1].pageX, absolutePosition.x),
                   y |-> fSub(event.touches[1].pageY, absolutePosition.y)]
        touchB == [x |-> fSub(event.touches[2].pageX, absolutePosition.x),
                   y |-> fSub(event.touches[2].pageY, absolutePosition.y)]
        dx == fSub(touchA.x, touchB.x)
        dy == fSub(touchA.y, touchB.y)
    IN  [center   |-> [x |-> fDiv(fAdd(touchA.x, touchB.x), Num(2)),
                       y |-> fDiv(fAdd(touchA.y, touchB.y), Num(2))],
         distance |-> MathSqrt(fAdd(fMul(dx, dx), fMul(dy, dy)))]

onMoveTouchResponder_AnimatesOnEntry(s, event) ==
    CASE Len(event.touches) = 1 ->
           LET newPos == [x |-> fSub(pageX(event), absolutePosition.x),
                          y |-> fSub(pageY(event), absolutePosition.y)]
           IN  IF s.childState.status = ChildStatusSINGLE
               THEN LET s1 == doChildMove(s, s.childState.last, newPos,
                                  s.childState.timestamp - event.timeStamp)
                    IN  doChildStateChange(s1,
                            [s1.childState EXCEPT
                               !.last = newPos,
                               !.timestamp = event.timeStamp,
                               !.status = ChildStatusSINGLE])
               ELSE doChildStateChange(s,
                        [s.childState EXCEPT
                           !.initial = newPos,
                           !.last = newPos,
                           !.timestamp = event.timeStamp,
                           !.status = ChildStatusSINGLE])
      [] Len(event.touches) = 2 ->
           LET newPinch == newPinchOf(event)
           IN  IF s.childState.status = ChildStatusDOUBLE
               THEN LET s1 == doChildPinchMove(s, s.childState.last, newPinch,
                                  s.childState.timestamp - event.timeStamp)
                    IN  doChildStateChange(s1,
                            [s1.childState EXCEPT
                               !.timestamp = event.timeStamp,
                               !.last = newPinch,
                               !.status = ChildStatusDOUBLE])
               ELSE LET s1 == doChildAnimation(s, 0, "noop", FALSE)
                    IN  doChildStateChange(s1,
                            [s1.childState EXCEPT
                               !.initial = newPinch,
                               !.timestamp = event.timeStamp,
                               !.last = newPinch,
                               !.status = ChildStatusDOUBLE])
      [] OTHER ->
           doChildStateChange(s,
               [s.childState EXCEPT !.status = ChildStatusOTHER])

onMoveTouchResponder(s, event) ==
    CASE Len(event.touches) = 1 ->
           LET newPos == [x |-> fSub(pageX(event), absolutePosition.x),
                          y |-> fSub(pageY(event), absolutePosition.y)]
           IN  IF s.childState.status = ChildStatusSINGLE
               THEN LET s1 == doChildMove(s, s.childState.last, newPos,
                                  s.childState.timestamp - event.timeStamp)
                    IN  doChildStateChange(s1,
                            [s1.childState EXCEPT
                               !.last = newPos,
                               !.timestamp = event.timeStamp,
                               !.status = ChildStatusSINGLE])
               ELSE doChildStateChange(s,
                        [s.childState EXCEPT
                           !.initial = newPos,
                           !.last = newPos,
                           !.timestamp = event.timeStamp,
                           !.status = ChildStatusSINGLE])
      [] Len(event.touches) = 2 ->
           LET newPinch == newPinchOf(event)
           IN  IF s.childState.status = ChildStatusDOUBLE
               THEN LET s1 == doChildPinchMove(s, s.childState.last, newPinch,
                                  s.childState.timestamp - event.timeStamp)
                    IN  doChildStateChange(s1,
                            [s1.childState EXCEPT
                               !.timestamp = event.timeStamp,
                               !.last = newPinch,
                               !.status = ChildStatusDOUBLE])
               ELSE doChildStateChange(s,
                        [s.childState EXCEPT
                           !.initial = newPinch,
                           !.timestamp = event.timeStamp,
                           !.last = newPinch,
                           !.status = ChildStatusDOUBLE])
      [] OTHER ->
           doChildStateChange(s,
               [s.childState EXCEPT !.status = ChildStatusOTHER])

(* gestureHandlers, as functions from the fields and the event to the     *)
(* fields after the call; the negotiation predicates also give their      *)
(* return value.                                                          *)

onStartShouldSetResponder(s, event) ==
    LET r == s.childDoingZoom
        s1 == IF r = FALSE /\ Len(event.touches) = 1
              THEN onStartTouchResponder(s, event)
              ELSE s
    IN  [this |-> doChildStateChange(s1,
                      [s1.childState EXCEPT !.status = ChildStatusOTHER]),
         ret  |-> r]

onMoveShouldSetResponder_Handling(s, event) ==
    [this |-> doChildStateChange(s,
                  [s.childState EXCEPT !.status = ChildStatusOTHER]),
     ret  |-> s.childDoingZoom \/ Len(event.touches) > 1]

onMoveShouldSetResponder(s, event) ==
    [this |-> s, ret |-> s.childDoingZoom \/ Len(event.touches) > 1]

onResponderTerminationRequest(s, event) ==
    [this |-> s, ret |-> ~(s.childDoingZoom \/ Len(event.touches) > 1)]

onStartShouldSetResponderCapture(s, event) ==
    [this |-> s, ret |-> s.childDoingZoom \/ Len(event.touches) > 1]

onMoveShouldSetResponderCapture(s, event) ==
    [this |-> s, ret |-> s.childDoingZoom \/ Len(event.touches) > 1]

onResponderMove(s, event) == onMoveTouchResponder(s, event)

onResponderRelease(s) ==
    LET s1 == doChildStateChange(s,
                  [s.childState EXCEPT !.status = ChildStatusOTHER])
    IN  IF fLt(MIN_ZOOM_RESET, s1.scaleTarget)
           /\ fLt(s1.scaleTarget, MAX_ZOOM_RESET)
        THEN doChildReset(s1, SOFT_ANIMIATION_TIME)
        ELSE s1

onResponderReject(s) ==
    doChildStateChange(s, [s.childState EXCEPT !.status = ChildStatusOTHER])

onResponderTerminate(s) ==
    doChildStateChange(s, [s.childState EXCEPT !.status = ChildStatusOTHER])

onResponderStart(s, event) ==
    IF Len(event.touches) = 1
    THEN onStartTouchResponder(s, event)
    ELSE onMoveTouchResponder(s, event)

---------------------------------------------------------------------------
(* Events delivered by the responder system *)

Touch(x, y) == [pageX |-> Num(x), pageY |-> Num(y)]

SingleTouches ==
    { <<Touch(150, 150)>>, <<Touch(200, 150)>>, <<Touch(200, 100)>> }

PinchTouches ==
    { <<Touch(100, 150), Touch(200, 150)>>,
      <<Touch(50, 150), Touch(250, 150)>>,
      <<Touch(150, 150), Touch(150, 150)>> }

OtherTouches ==
    { <<>>, <<Touch(100, 150), Touch(200, 150), Touch(150, 200)>> }

TouchLists == SingleTouches \cup PinchTouches \cup OtherTouches

Delays == {100, 300}

(* The event a negotiation predicate is asked about: only its touches are *)
(* read.                                                                  *)
NegotiationEvents ==
    { [touches |-> t, timeStamp |-> now] : t \in TouchLists }

Events ==
    { [touches |-> t, timeStamp |-> now + d] :
          t \in TouchLists, d \in {e \in Delays : now + e <= MaxTime} }

Commit(s) ==
    /\ childState' = s.childState
    /\ childDoingZoom' = s.childDoingZoom
    /\ doingChildAnimation' = s.doingChildAnimation
    /\ scaleTarget' = s.scaleTarget
    /\ transformBase' = s.transformBase
    /\ animations' = s.animations
    /\ scaleAnimated' = s.scaleAnimated
    /\ transformAnimated' = s.transformAnimated
    /\ UNCHANGED absolutePosition

Init ==
    /\ childState = [status    |-> ChildStatusOTHER,
                     initial   |-> Undefined,
                     last      |-> Undefined,
                     timestamp |-> Undefined,
                     lastTouch |-> 0]
    /\ childDoingZoom = FALSE
    /\ doingChildAnimation = FALSE
    /\ scaleTarget = Num(1)
    /\ transformBase = Pos(Num(0), Num(0))
    /\ animations = <<>>
    /\ absolutePosition = Pos(Num(0), Num(0))
    /\ scaleAnimated = scaleTarget
    /\ transformAnimated =
           positionMult(transformBase, fSub(Num(1), scaleTarget))
    /\ now = StartTime
    /\ lastTap = 0

Predicate(r) ==
    /\ Commit(r.this)
    /\ UNCHANGED <<now, lastTap>>

OnStartShouldSetResponder(event) ==
    LET r == onStartShouldSetResponder(This, event)
    IN  /\ Commit(r.this)
        /\ now' = event.timeStamp
        /\ lastTap' = IF ~childDoingZoom /\ Len(event.touches) = 1
                      THEN event.timeStamp
                      ELSE lastTap

OnMoveShouldSetResponder(event) ==
    Predicate(onMoveShouldSetResponder(This, event))

OnResponderTerminationRequest(event) ==
    Predicate(onResponderTerminationRequest(This, event))

OnStartShouldSetResponderCapture(event) ==
    Predicate(onStartShouldSetResponderCapture(This, event))

OnMoveShouldSetResponderCapture(event) ==
    Predicate(onMoveShouldSetResponderCapture(This, event))

OnResponderMove(event) ==
    /\ Commit(onResponderMove(This, event))
    /\ now' = event.timeStamp
    /\ UNCHANGED lastTap

OnResponderStart(event) ==
    /\ Commit(onResponderStart(This, event))
    /\ now' = event.timeStamp
    /\ lastTap' = IF Len(event.touches) = 1 THEN event.timeStamp ELSE lastTap

OnResponderRelease ==
    /\ Commit(onResponderRelease(This))
    /\ UNCHANGED <<now, lastTap>>

OnResponderReject ==
    /\ Commit(onResponderReject(This))
    /\ UNCHANGED <<now, lastTap>>

OnResponderTerminate ==
    /\ Commit(onResponderTerminate(This))
    /\ UNCHANGED <<now, lastTap>>

(* The page origins rootView.measure reports: the view at the page       *)
(* origin, or 50 px to its right.                                         *)
LayoutOrigins == { Pos(Num(0), Num(0)), Pos(Num(50), Num(0)) }

(* onLayout: the measure callback stores the page origin of the root      *)
(* view.                                                                  *)
OnLayout(origin) ==
    /\ absolutePosition' = [x |-> origin.x, y |-> origin.y]
    /\ UNCHANGED <<childState, childDoingZoom, doingChildAnimation,
                   scaleTarget, transformBase, animations, scaleAnimated,
                   transformAnimated, now, lastTap>>

RemoveAt(seq, i) == SubSeq(seq, 1, i - 1) \o SubSeq(seq, i + 1, Len(seq))

(* Natural end of an animation in flight: the animated values have        *)
(* arrived at its toScale / toValue and its end callback runs.            *)
AnimationEnd(i) ==
    LET a == animations[i]
    IN  /\ Commit(endCallback(
                   [This EXCEPT !.animations = RemoveAt(@, i),
                                !.scaleAnimated = a.toScale,
                                !.transformAnimated = a.toValue], a))
        /\ UNCHANGED <<now, lastTap>>

Next ==
    \/ \E event \in Events : OnStartShouldSetResponder(event)
    \/ \E event \in NegotiationEvents : OnMoveShouldSetResponder(event)
    \/ \E event \in NegotiationEvents : OnResponderTerminationRequest(event)
    \/ \E event \in NegotiationEvents : OnStartShouldSetResponderCapture(event)
    \/ \E event \in NegotiationEvents : OnMoveShouldSetResponderCapture(event)
    \/ \E event \in Events : OnResponderMove(event)
    \/ \E event \in Events : OnResponderStart(event)
    \/ OnResponderRelease
    \/ OnResponderReject
    \/ OnResponderTerminate
    \/ \E i \in 1..Len(animations) : AnimationEnd(i)
    \/ \E origin \in LayoutOrigins : OnLayout(origin)

Spec == Init /\ [][Next]_vars

(* Animated ends every animation it has started: a timing animation runs  *)
(* for its duration and then calls the completion callback.               *)
AnimationCompletes == \E i \in 1..Len(animations) : AnimationEnd(i)

LiveSpec == Spec /\ WF_vars(AnimationCompletes)

---------------------------------------------------------------------------
(* Vocabulary of the claims *)

Identity == Pos(Num(0), Num(0))

WithinZoom(scale) == fLe(MIN_ZOOM, scale) /\ fLe(scale, MAX_ZOOM)

WithinPan(translation, scale) ==
    LET slack == MathAbs(fSub(Num(1), scale))
    IN  /\ fLe(MathAbs(translation.x),
               fDiv(fMul(viewPort.width, slack), Num(2)))
        /\ fLe(MathAbs(translation.y),
               fDiv(fMul(viewPort.height, slack), Num(2)))

InResetRange(scale) == fLt(Num(0), scale) /\ fLt(scale, Norm(13, 10))

(* resetToIdentity(300 ms) was invoked by the step: the target is the      *)
(* identity and the one animation in flight is the reset's.                *)
ResetInvoked ==
    /\ scaleTarget' = Num(1)
    /\ transformBase' = Identity
    /\ Len(animations') = 1
    /\ animations'[1].callback = "reset"
    /\ animations'[1].duration = 300
    /\ animations'[1].toScale = Num(1)
    /\ animations'[1].toValue = Identity

(* C1: after any call of doChildAnimation the target scale is within      *)
(* [MIN_ZOOM, MAX_ZOOM] = [0.5, 5].  Every handler that writes the target *)
(* scale ends with that call, so the claim is an invariant of the fields. *)
C1_ScaleTargetWithinZoom == WithinZoom(scaleTarget)

(* C2: once the clamping step of doChildAnimation has run, the target     *)
(* translation is within viewport * |1 - scale| / 2 on both axes, scale   *)
(* being the clamped target scale.  An animation in flight holds the      *)
(* target as the clamping step that started it left it.                   *)
C2_ClampedTranslationWithinPan ==
    \A i \in 1..Len(animations) :
        WithinPan(animations[i].toValue, animations[i].toScale)

(* C3: release, terminate and reject each force the gesture state to      *)
(* None and, when the target scale is strictly between 0 and 1.3, invoke  *)
(* resetToIdentity with a 300 ms animation.                               *)
C3_LifecycleCallbacksReset ==
    [][(OnResponderRelease \/ OnResponderTerminate \/ OnResponderReject)
          => /\ childState'.status = ChildStatusOTHER
             /\ (InResetRange(scaleTarget) => ResetInvoked)]_vars

(* A one-touch start event handed to onStartTouchResponder, by            *)
(* onStartShouldSetResponder or by onResponderStart.                      *)
TapStep(event) ==
    /\ Len(event.touches) = 1
    /\ \/ ~childDoingZoom /\ OnStartShouldSetResponder(event)
       \/ OnResponderStart(event)

(* A two-touch event forwarded as a pinch move.                           *)
PinchMoveStep(event) ==
    /\ Len(event.touches) = 2
    /\ childState.status = ChildStatusDOUBLE
    /\ (OnResponderMove(event) \/ OnResponderStart(event))

TapPosition(event) ==
    [x |-> fSub(event.touches[1].pageX, absolutePosition.x),
     y |-> fSub(event.touches[1].pageY, absolutePosition.y)]

ViewportCenter ==
    [x |-> fDiv(viewPort.width, Num(2)), y |-> fDiv(viewPort.height, Num(2))]

(* The double-tap zoom-in was invoked by the step: the target scale is     *)
(* doubled (and clamped) and one overriding 300 ms animation runs to it.   *)
ZoomInInvoked ==
    /\ childDoingZoom'
    /\ scaleTarget' = MathMax(MathMin(fMul(scaleTarget, Num(2)), Num(5)),
                              Norm(1, 2))
    /\ Len(animations') = 1
    /\ animations'[1].callback = "noop"
    /\ animations'[1].duration = 300
    /\ animations'[1].toScale = scaleTarget'
    /\ animations'[1].toValue = transformBase'

(* C4, as claimed: a one-touch touch-down less than 300 ms after the      *)
(* previous one, while the state is not SingleTouch, zooms in when zoom   *)
(* is not in progress and calls resetToIdentity when it is (the third     *)
(* rapid tap).                                                            *)
C4_RapidTapZoomsThenResets ==
    [][\A event \in Events :
          ( /\ TapStep(event)
            /\ event.timeStamp - lastTap < 300
            /\ childState.status # ChildStatusSINGLE )
          => IF childDoingZoom THEN ResetInvoked ELSE ZoomInInvoked]_vars

(* C4, amended: a one-touch touch-down is a double tap when it comes less *)
(* than 300 ms after the recorded lastTouch, which every detected double  *)
(* tap resets to 0.  While the state is not SingleTouch a double tap      *)
(* zooms in when zoom is not in progress and calls resetToIdentity when   *)
(* it is; while SingleTouch it only resets lastTouch.  Any other          *)
(* touch-down, the tap right after a double tap included, records         *)
(* lastTouch and leaves the target and the animation alone.               *)
C4_DoubleTapByLastTouch ==
    [][\A event \in Events :
          TapStep(event) =>
            LET rapid == event.timeStamp - childState.lastTouch < 300
                single == childState.status = ChildStatusSINGLE
            IN  /\ rapid => childState'.lastTouch = 0
                /\ rapid /\ ~single /\ ~childDoingZoom => ZoomInInvoked
                /\ rapid /\ ~single /\ childDoingZoom => ResetInvoked
                /\ ~rapid \/ single =>
                       UNCHANGED <<scaleTarget, transformBase, animations,
                                   childDoingZoom, doingChildAnimation>>
                /\ ~rapid => childState'.lastTouch = event.timeStamp
                /\ childState.lastTouch = 0 => ~rapid]_vars

(* C4 witness: the latest touch-down was a double tap while zoomed and    *)
(* its resetToIdentity replaced the animation that was running.           *)
C4_ResetByDoubleTap ==
    /\ lastTap = now
    /\ childState.lastTouch = 0
    /\ childState.status # ChildStatusSINGLE
    /\ Len(animations) = 1
    /\ animations[1].callback = "reset"
    /\ animations[1].replaced
    /\ scaleTarget = Num(1)

(* C5: a double tap at p while zoom is not in progress and the target is  *)
(* scale 1, translation {0,0} sets the target scale to 2 and the target   *)
(* translation to -(p - viewportCenter), with an overriding 300 ms        *)
(* animation to that target.                                              *)
C5_DoubleTapZoomsAboutTouch ==
    [][\A event \in Events :
          ( /\ TapStep(event)
            /\ event.timeStamp - childState.lastTouch < 300
            /\ childState.status # ChildStatusSINGLE
            /\ ~childDoingZoom
            /\ scaleTarget = Num(1)
            /\ transformBase = Identity )
          => LET p == TapPosition(event)
                 t == [x |-> fNeg(fSub(p.x, ViewportCenter.x)),
                       y |-> fNeg(fSub(p.y, ViewportCenter.y))]
             IN  /\ scaleTarget' = Num(2)
                 /\ transformBase' = t
                 /\ animations' = << [callback |-> "noop",
                                      duration |-> 300,
                                      toScale  |-> Num(2),
                                      toValue  |-> t,
                                      replaced |-> animations # <<>>] >>]_vars

(* C5 witness: the double tap 50 px right of the centre of the 300 px     *)
(* wide viewport has just been handled.                                   *)
C5_ZoomedAbout50RightOfCentre ==
    /\ lastTap = now
    /\ childState.lastTouch = 0
    /\ scaleTarget = Num(2)
    /\ transformBase = Pos(Num(-50), Num(0))
    /\ Len(animations) = 1
    /\ animations[1].callback = "noop"
    /\ animations[1].toValue = Pos(Num(-50), Num(0))
    /\ ~animations[1].replaced

(* C6: the animation-running flag and the zoom-in-progress flag are       *)
(* cleared only by the completion of the currently active animation, the  *)
(* one started last; an animation superseded by an override clears        *)
(* nothing afterwards.                                                    *)
C6_OnlyActiveCompletionClearsFlags ==
    [][( \/ doingChildAnimation /\ ~doingChildAnimation'
         \/ childDoingZoom /\ ~childDoingZoom' )
          => /\ animations # <<>>
             /\ animations' = SubSeq(animations, 1, Len(animations) - 1)
             /\ (childDoingZoom /\ ~childDoingZoom'
                   => animations[Len(animations)].callback = "reset")]_vars

(* C6 witness: the animation in flight superseded one that was running,   *)
(* and both flags are set.                                                *)
C6_SupersedingAnimationActive ==
    /\ Len(animations) = 1
    /\ animations[1].replaced
    /\ doingChildAnimation
    /\ childDoingZoom

(* C7: at most one convergence animation is in flight in every reachable  *)
(* state.                                                                 *)
C7_AtMostOneAnimationInFlight == Len(animations) <= 1

(* C7 witness: a request arrived while the animation in flight was        *)
(* running and was dropped: the target has moved on from the              *)
(* animation's destination.                                               *)
C7_RequestDroppedWhileRunning ==
    /\ Len(animations) = 1
    /\ doingChildAnimation
    /\ animations[1].toScale # scaleTarget

(* C8: a pinch move whose previous pinch distance is zero leaves the      *)
(* target scale unchanged and puts no undefined value into the target.    *)
C8_CoincidentPinchIsNoScaleChange ==
    [][\A event \in Events :
          ( /\ PinchMoveStep(event)
            /\ childState.last.distance = Num(0) )
          => /\ scaleTarget' = scaleTarget
             /\ ~IsNaN(scaleTarget')
             /\ ~IsNaN(transformBase'.x)
             /\ ~IsNaN(transformBase'.y)]_vars

(* C9: start, move, start-capture and move-capture claim the gesture      *)
(* exactly when zoom is in progress or the event has more than one touch, *)
(* and the termination request is allowed exactly when neither holds.     *)
C9_PredicatesClaimOnZoomOrMultiTouch ==
    \A event \in NegotiationEvents :
        LET claim == childDoingZoom \/ Len(event.touches) > 1
        IN  /\ onStartShouldSetResponder(This, event).ret = claim
            /\ onMoveShouldSetResponder(This, event).ret = claim
            /\ onStartShouldSetResponderCapture(This, event).ret = claim
            /\ onMoveShouldSetResponderCapture(This, event).ret = claim
            /\ onResponderTerminationRequest(This, event).ret = ~claim

(* C10, as claimed: evaluating any negotiation predicate leaves the       *)
(* gesture state, the target, the flags and the animations unchanged.     *)
C10_PredicatesChangeNothing ==
    \A event \in NegotiationEvents :
        /\ onStartShouldSetResponder(This, event).this = This
        /\ onMoveShouldSetResponder(This, event).this = This
        /\ onStartShouldSetResponderCapture(This, event).this = This
        /\ onMoveShouldSetResponderCapture(This, event).this = This
        /\ onResponderTerminationRequest(This, event).this = This

(* C10, amended: the move, start-capture, move-capture and                *)
(* termination-request predicates leave every field unchanged;            *)
(* onStartShouldSetResponder forces the gesture state to None and changes *)
(* nothing else unless zoom is not in progress and the event has one      *)
(* touch, which it handles as a touch-down.                               *)
C10_AllButStartChangeNothing ==
    \A event \in NegotiationEvents :
        /\ onMoveShouldSetResponder(This, event).this = This
        /\ onStartShouldSetResponderCapture(This, event).this = This
        /\ onMoveShouldSetResponderCapture(This, event).this = This
        /\ onResponderTerminationRequest(This, event).this = This
        /\ onStartShouldSetResponder(This, event).this.childState.status
               = ChildStatusOTHER
        /\ (childDoingZoom \/ Len(event.touches) # 1
              => onStartShouldSetResponder(This, event).this
                   = [This EXCEPT !.childState.status = ChildStatusOTHER])

(* C10 witness: a pinch is under way with its animation in flight, the    *)
(* state in which the responder system asks the move predicates.          *)
C10_AskedDuringPinch ==
    /\ childState.status = ChildStatusDOUBLE
    /\ childDoingZoom
    /\ Len(animations) = 1
    /\ childState.lastTouch # 0

(* A one-touch move event in state SingleTouch: the drag forwarded to     *)
(* doChildMove.                                                           *)
DragStep(event) ==
    /\ Len(event.touches) = 1
    /\ childState.status = ChildStatusSINGLE
    /\ OnResponderMove(event)

(* C11: move changes nothing (target scale, target translation, flags,    *)
(* animation) unless zoom is in progress and the target scale is not 1;   *)
(* a single-finger drag while zoom is not in progress leaves the target   *)
(* unchanged.                                                             *)
C11_MoveOutsideZoomIsNoOp ==
    [][\A event \in Events :
          ( /\ DragStep(event)
            /\ ~(childDoingZoom /\ scaleTarget # Num(1)) )
          => /\ UNCHANGED <<scaleTarget, transformBase, childDoingZoom,
                            doingChildAnimation, animations>>
             /\ doChildMove(This, childState.last, TapPosition(event),
                            childState.timestamp - event.timeStamp) = This
        ]_vars

(* C11 witness: a finger has been dragged from its touch-down position    *)
(* while zoom is not in progress, and nothing but the gesture state has   *)
(* moved.                                                                 *)
C11_DraggedWithoutZoom ==
    /\ childState.status = ChildStatusSINGLE
    /\ childState.last # childState.initial
    /\ ~childDoingZoom
    /\ ~doingChildAnimation
    /\ animations = <<>>
    /\ scaleTarget = Num(1)
    /\ transformBase = Identity

(* C12: once zoom is in progress it stops being so only through the       *)
(* completion of a resetToIdentity animation; no clamping step, move,     *)
(* pinch, state transition or completion of another animation clears it.  *)
C12_ZoomClearedOnlyByResetCompletion ==
    [][(childDoingZoom /\ ~childDoingZoom')
          => \E i \in 1..Len(animations) :
                 /\ animations[i].callback = "reset"
                 /\ AnimationEnd(i)]_vars

(* C12 witness: the double-tap zoom-in animation has completed, the       *)
(* animated scale has arrived at 2, and zoom is still in progress.        *)
C12_ZoomKeptAfterZoomInCompleted ==
    /\ childDoingZoom
    /\ ~doingChildAnimation
    /\ animations = <<>>
    /\ scaleTarget = Num(2)
    /\ scaleAnimated = Num(2)
    /\ childState.status = ChildStatusOTHER

(* C13: resetToIdentity called when the target is already scale 1,        *)
(* translation {0,0} leaves the target there, and when its animation      *)
(* completes zoom is not in progress.                                     *)
C13_ResetAtIdentityIsIdempotent ==
    [][/\ ( /\ OnResponderRelease
            /\ scaleTarget = Num(1)
            /\ transformBase = Identity )
          => /\ scaleTarget' = Num(1)
             /\ transformBase' = Identity
             /\ Len(animations') = 1
             /\ animations'[1].callback = "reset"
             /\ animations'[1].toScale = Num(1)
             /\ animations'[1].toValue = Identity
       /\ \A i \in 1..Len(animations) :
              (animations[i].callback = "reset" /\ AnimationEnd(i))
              => ~childDoingZoom']_vars

(* C13 witness: no touch event has arrived yet, so the target has been    *)
(* the identity throughout, and a reset animation is in flight.           *)
C13_ResetInFlightAtIdentity ==
    /\ now = StartTime
    /\ Len(animations) = 1
    /\ animations[1].callback = "reset"
    /\ scaleTarget = Num(1)
    /\ transformBase = Identity
    /\ childDoingZoom

(* The pinches, scale ratios, pivots and translation deltas that the      *)
(* touch handlers hand to the transform engine for the events of the      *)
(* model.                                                                 *)
PinchInfos ==
    { newPinchOf([touches |-> t, timeStamp |-> now]) : t \in PinchTouches }

ScaleRatios ==
    { fDiv(next.distance, prev.distance) : next \in PinchInfos,
                                           prev \in PinchInfos }
      \cup { DEFAULT_ZOOM }

Pivots ==
    { [x |-> fSub(fSub(t[1].pageX, absolutePosition.x), ViewportCenter.x),
       y |-> fSub(fSub(t[1].pageY, absolutePosition.y), ViewportCenter.y)] :
          t \in SingleTouches }

Deltas == { Identity, Pos(Num(50), Num(0)), Pos(Num(0), Num(-50)) }

(* C14: for every scale ratio r, translation delta d and pivot p,         *)
(* changeScale(d, r, p) yields scale' = scale * r and translation' =      *)
(* translation + d + (p - translation) * (1 - r), and with d = 0 the      *)
(* point under the pivot is fixed: translation' + r * (p - translation)   *)
(* = p.                                                                   *)
C14_ChangeScaleFixesPivot ==
    \A r \in ScaleRatios, d \in Deltas, p \in Pivots :
        LET t == doChangeScale(This, d, r, p)
            expected(cur, dd, pp) ==
                fAdd(fAdd(cur, dd), fMul(fSub(pp, cur), fSub(Num(1), r)))
        IN  /\ t.scaleTarget = fMul(scaleTarget, r)
            /\ t.transformBase.x = expected(transformBase.x, d.x, p.x)
            /\ t.transformBase.y = expected(transformBase.y, d.y, p.y)
            /\ d = Identity =>
                 /\ fAdd(t.transformBase.x,
                         fMul(r, fSub(p.x, transformBase.x))) = p.x
                 /\ fAdd(t.transformBase.y,
                         fMul(r, fSub(p.y, transformBase.y))) = p.y

(* C15: a pinch move forwarded in state PinchTouch with no animation      *)
(* running, from target scale 1 and translation {0,0}, whose previous and *)
(* next centres are both the viewport centre, multiplies the target scale *)
(* by next.distance / prev.distance and leaves the translation at {0,0}.  *)
C15_CentredPinchScalesByRatio ==
    [][\A event \in Events :
          ( /\ PinchMoveStep(event)
            /\ ~doingChildAnimation
            /\ scaleTarget = Num(1)
            /\ transformBase = Identity
            /\ childState.last.center = ViewportCenter
            /\ newPinchOf(event).center = ViewportCenter )
          => /\ scaleTarget' =
                  fMul(scaleTarget, fDiv(newPinchOf(event).distance,
                                         childState.last.distance))
             /\ transformBase' = Identity]_vars

(* C16: the animated transform converges to the transform target: once    *)
(* the delivered touch events have been handled and every pending         *)
(* animation completion has fired, the animated scale and translation     *)
(* equal the target scale and translation.                                *)
C16_AnimatedValuesReachTarget ==
    animations = <<>> =>
        /\ scaleAnimated = scaleTarget
        /\ transformAnimated = transformBase

(* C17: after every gesture-state transition in which the gesture kind    *)
(* changes and the new kind is not SingleTouch, the stored lastTouch of   *)
(* the resulting gesture state is 0.                                      *)
C17_LastTouchClearedOnKindChange ==
    [][( /\ childState'.status # childState.status
         /\ childState'.status # ChildStatusSINGLE )
          => childState'.lastTouch = 0]_vars

(* C18: a touch start with exactly one touch that is not treated as a     *)
(* double tap (the 300 ms window has elapsed, or the state is already     *)
(* SingleTouch) sets lastTouch to the event time and makes the state      *)
(* SingleTouch{initial: p, last: p, timestamp: now}.                      *)
C18_PlainTouchStartBeginsSingleTouch ==
    [][\A event \in Events :
          ( /\ Len(event.touches) = 1
            /\ OnResponderStart(event)
            /\ \/ ~(event.timeStamp - childState.lastTouch < 300)
               \/ childState.status = ChildStatusSINGLE )
          => childState' = [status    |-> ChildStatusSINGLE,
                            initial   |-> TapPosition(event),
                            last      |-> TapPosition(event),
                            timestamp |-> event.timeStamp,
                            lastTouch |-> event.timeStamp]]_vars

(* An event handed to onMoveTouchResponder: every move event, and a start *)
(* event that does not have exactly one touch.                            *)
MoveHandlerStep(event) ==
    \/ OnResponderMove(event)
    \/ Len(event.touches) # 1 /\ OnResponderStart(event)

(* C19: a move event (or a start event delegated to the move handler)     *)
(* with two or more touches, three or more included, makes or keeps the   *)
(* state PinchTouch with the PinchInfo of the first two touches; only a   *)
(* count of 0 leads to None.                                              *)
C19_TwoOrMoreTouchesArePinch ==
    [][\A event \in Events :
          MoveHandlerStep(event) =>
            /\ Len(event.touches) >= 2 =>
                 /\ childState'.status = ChildStatusDOUBLE
                 /\ childState'.last = newPinchOf(event)
            /\ childState'.status = ChildStatusOTHER =>
                 Len(event.touches) = 0]_vars

(* A move event that changes the gesture kind.                            *)
KindChangeStep(event) ==
    /\ \/ Len(event.touches) = 1 /\ childState.status # ChildStatusSINGLE
       \/ Len(event.touches) = 2 /\ childState.status # ChildStatusDOUBLE
    /\ event.timeStamp = now'
    /\ MoveHandlerStep(event)

(* C20: a move event that changes the gesture kind (one touch while not   *)
(* SingleTouch, two touches while not PinchTouch) forwards no move: the   *)
(* target scale and translation are unchanged and no animation is         *)
(* started; of the gesture state only the kind and initial, last and      *)
(* timestamp change, to the new geometry.                                 *)
C20_KindChangeForwardsNoMove ==
    [][\A event \in Events :
          KindChangeStep(event) =>
            LET geometry == IF Len(event.touches) = 1
                            THEN TapPosition(event)
                            ELSE newPinchOf(event)
                kind == IF Len(event.touches) = 1
                        THEN ChildStatusSINGLE
                        ELSE ChildStatusDOUBLE
            IN  /\ UNCHANGED <<scaleTarget, transformBase, animations,
                               doingChildAnimation, scaleAnimated,
                               transformAnimated>>
                /\ childState' = [childState EXCEPT
                                    !.status = kind,
                                    !.initial = geometry,
                                    !.last = geometry,
                                    !.timestamp = event.timeStamp]]_vars

(* C20 witness: after zooming to scale 2 by a pinch a finger was lifted;  *)
(* no touch start was ever handled, so SingleTouch was entered by the     *)
(* move event, and the target is still where the pinch left it.           *)
C20_FingerLiftedAfterPinch ==
    /\ lastTap = 0
    /\ childState.status = ChildStatusSINGLE
    /\ childState.initial = childState.last
    /\ childState.timestamp = now
    /\ scaleTarget = Num(2)
    /\ Len(animations) = 1
    /\ animations[1].toScale = Num(2)

(* C21: in every reachable state, if zoom is not in progress then the     *)
(* transform target is the identity: target scale 1 and target            *)
(* translation {0,0}.                                                     *)
C21_TargetIsIdentityOutsideZoom ==
    ~childDoingZoom => (scaleTarget = Num(1) /\ transformBase = Identity)

(* The component is idle.                                                 *)
Idle ==
    /\ scaleTarget = Num(1)
    /\ transformBase = Identity
    /\ ~childDoingZoom
    /\ ~doingChildAnimation

(* The state a release with the target scale strictly between 0 and 1.3   *)
(* leaves behind: gesture state None, the target at the identity and the  *)
(* reset animation towards it in flight.                                  *)
ResetPending ==
    /\ childState.status = ChildStatusOTHER
    /\ scaleTarget = Num(1)
    /\ transformBase = Identity
    /\ Len(animations) = 1
    /\ animations[1].callback = "reset"
    /\ animations[1].duration = 300
    /\ animations[1].toScale = Num(1)
    /\ animations[1].toValue = Identity

(* No touch event with a later time stamp is left to arrive.              *)
NoFurtherTouches == now = MaxTime

(* C22: if a release occurs while the target scale is strictly between 0  *)
(* and 1.3 and no further touch events arrive, then eventually, under     *)
(* fair delivery of animation completions, the component is idle: target  *)
(* scale 1, translation {0,0}, zoom not in progress, no animation         *)
(* running.                                                               *)
C22_ReleaseLeadsToIdle == (ResetPending /\ NoFurtherTouches) ~> Idle

(* C22 witness: after the last touch event a release has started the      *)
(* reset animation while the animated scale was away from 1.              *)
C22_ReleasedAwayFromIdentity ==
    /\ ResetPending
    /\ NoFurtherTouches
    /\ scaleAnimated # Num(1)
    /\ lastTap = 0

(* A drag or pinch move forwarded to the transform engine that starts an  *)
(* animation.                                                             *)
ForwardedMoveStarts(event) ==
    /\ animations = <<>>
    /\ animations' # <<>>
    /\ \/ DragStep(event)
       \/ PinchMoveStep(event)

(* C23: for every move or pinch move forwarded to the transform engine    *)
(* from events with non-decreasing time stamps, the animation duration    *)
(* handed to applyAndAnimate is non-negative and equals the event time    *)
(* minus the previously stored gesture time stamp.                        *)
C23_DurationIsElapsedTime ==
    [][\A event \in Events :
          ForwardedMoveStarts(event) =>
            /\ animations'[1].duration >= 0
            /\ animations'[1].duration
                 = event.timeStamp - childState.timestamp]_vars

=============================================================================
